---- MODULE Spec2Model ----
(***************************************************************************)
(* The API gateway of src/core/api.js (runAPI): the two rate limiters and  *)
(* their mounts, the path-decoding guard, the body-parsing stage of        *)
(* /api/json, and the route handlers /api/json, /api/stream and            *)
(* /api/istream, as a state machine over the requests the process is       *)
(* serving.                                                                *)
(*                                                                         *)
(* A JavaScript string is modelled by its length where the code reads only *)
(* its length, and by itself where the code compares it.  A query field    *)
(* that is absent is the value Undefined.                                  *)
(***************************************************************************)
EXTENDS Integers, Sequences, FiniteSets, Bags

VARIABLES
    ipSalt,     \* the process secret of line 5
    hits,       \* hits[l]: the store of limiter l, a count for each key it holds
    passed,     \* passed[l]: the requests l handed on this window, by key
    inflight,   \* bag of the requests handed on and not yet answered
    last        \* the latest exchange that ended: request, response, calls made

vars == <<ipSalt, hits, passed, inflight, last>>

-----------------------------------------------------------------------------
(* Bounds of the model *)

\* requests in flight at once, where the limiters are what is specified
MaxInFlight == 2
\* requests in flight at once, where the handlers are what is specified
MaxPending == 1
\* requests one key may send to one limiter in a window beyond its max
MaxOver == 1
\* requests one key may send to one limiter in a window, where the limit is
\* not what the specification is about
MaxBurst == 1

-----------------------------------------------------------------------------
(* JavaScript values *)

\* a query field: absent, or a string of n characters
Undefined == [type |-> "undefined", length |-> 0]
Str(n) == [type |-> "string", length |-> n]

\* String(v).length: String(undefined) is the 9 characters "undefined"
StringLength(v) == IF v.type = "undefined" THEN 9 ELSE v.length

\* the truth value of v: undefined and the empty string are falsy
Truthy(v) == v.type = "string" /\ v.length > 0

\* s.endsWith(suffix), on sequences of characters
EndsWith(s, suffix) ==
    /\ Len(s) >= Len(suffix)
    /\ SubSeq(s, Len(s) - Len(suffix) + 1, Len(s)) = suffix

-----------------------------------------------------------------------------
(* Callers and their addresses *)

\* req.ip of the callers, by the trust proxy setting of line 52
Callers == {"127.0.0.1", "::ffff:127.0.0.1", "127.0.0.2", "203.0.113.7"}

Loopback == <<"1", "2", "7", ".", "0", ".", "0", ".", "1">>

\* the characters of an address
Chars(addr) ==
    CASE addr = "127.0.0.1"        -> Loopback
      [] addr = "::ffff:127.0.0.1" -> <<":", ":", "f", "f", "f", "f", ":">> \o Loopback
      [] addr = "127.0.0.2"        -> <<"1", "2", "7", ".", "0", ".", "0", ".", "2">>
      [] addr = "203.0.113.7"      ->
             <<"2", "0", "3", ".", "0", ".", "1", "1", "3", ".", "7">>

Salts == {"s1", "s2"}

getIP(addr) == addr

generateHmac(text, salt) == <<text, salt>>

keyGenerator_Unsalted(addr, salt) == generateHmac(getIP(addr), "")

\* the keyGenerator option of both limiters, lines 29 and 43
keyGenerator(addr, salt) == generateHmac(getIP(addr), salt)

Keys == {keyGenerator(c, s) : c \in Callers, s \in Salts}

-----------------------------------------------------------------------------
(* The rate limiters, lines 24-47 and 59-61 *)

Limiters == {"apiLimiter", "apiLimiterStream"}

max_Swapped(l) == IF l = "apiLimiter" THEN 25 ELSE 20

max(l) == IF l = "apiLimiter" THEN 20 ELSE 25

\* the request paths, each with its segments as the router sees them
Segments ==
    [api_json     |-> <<"api", "json">>,
     api_stream   |-> <<"api", "stream">>,
     api_istream  |-> <<"api", "istream">>,
     api_onDemand |-> <<"api", "onDemand">>,
     api_jsonZZ   |-> <<"api", "json%ZZ">>,
     api_json_ZZ  |-> <<"api", "json", "%ZZ">>,
     ZZ           |-> <<"%ZZ">>]

PathNames ==
    [api_json     |-> "/api/json",
     api_stream   |-> "/api/stream",
     api_istream  |-> "/api/istream",
     api_onDemand |-> "/api/onDemand",
     api_jsonZZ   |-> "/api/json%ZZ",
     api_json_ZZ  |-> "/api/json/%ZZ",
     ZZ           |-> "/%ZZ"]

Paths == {PathNames[n] : n \in DOMAIN PathNames}

SegmentsOf(path) ==
    Segments[CHOOSE n \in DOMAIN PathNames : PathNames[n] = path]

\* decodeURIComponent throws on a "%" that two hex digits do not follow
decodeURIComponent(segment) ==
    IF segment \in {"json%ZZ", "%ZZ"} THEN "URIError" ELSE segment

\* app.use(prefix, ...): the path starts with the segments of the prefix
Mounted(prefix, path) ==
    LET segments == SegmentsOf(path)
    IN  /\ Len(prefix) <= Len(segments)
        /\ \A i \in 1..Len(prefix) : segments[i] = prefix[i]

\* decodeURIComponent(req.path) of line 64 returns
pathDecodes(path) ==
    \A i \in 1..Len(SegmentsOf(path)) :
        decodeURIComponent(SegmentsOf(path)[i]) # "URIError"

LimiterOf_GuardFirst(path) ==
    {l \in Limiters :
        /\ pathDecodes(path)
        /\ \/ l = "apiLimiter" /\ Mounted(<<"api", "json">>, path)
           \/ l = "apiLimiterStream" /\ Mounted(<<"api", "stream">>, path)
           \/ l = "apiLimiter" /\ Mounted(<<"api", "onDemand">>, path)}

LimiterOf_Shared(path) ==
    {l \in {"apiLimiter"} :
        \/ Mounted(<<"api", "json">>, path)
        \/ Mounted(<<"api", "stream">>, path)
        \/ Mounted(<<"api", "onDemand">>, path)}

LimiterOf_OnDemandFree(path) ==
    {l \in Limiters :
        \/ l = "apiLimiter" /\ Mounted(<<"api", "json">>, path)
        \/ l = "apiLimiterStream" /\ Mounted(<<"api", "stream">>, path)}

LimiterOf_StreamFree(path) ==
    {l \in Limiters :
        \/ l = "apiLimiter" /\ Mounted(<<"api", "json">>, path)
        \/ l = "apiLimiter" /\ Mounted(<<"api", "onDemand">>, path)}

\* the limiter mounted on a path, lines 59-61: a set, empty where none is
LimiterOf(path) ==
    {l \in Limiters :
        \/ l = "apiLimiter" /\ Mounted(<<"api", "json">>, path)
        \/ l = "apiLimiterStream" /\ Mounted(<<"api", "stream">>, path)
        \/ l = "apiLimiter" /\ Mounted(<<"api", "onDemand">>, path)}

-----------------------------------------------------------------------------
(* Responses *)

NoBody == <<>>

status(code, body) == [status |-> code, body |-> body, destroyed |-> FALSE]

sendStatus(code) == status(code, NoBody)

destroy_Answers500 == status(500, <<"error", "Internal Server Error">>)

\* res.destroy(): the connection is closed, nothing is written
destroy == [status |-> 0, body |-> NoBody, destroyed |-> TRUE]

\* what the proxy writes once stream() took the response over
Proxied == status(200, <<"media">>)

languageCode == "en"

loc(lang, t) == <<lang, t>>

\* the handler option of each limiter, lines 30-35 and 44-46
handler(l) ==
    IF l = "apiLimiter"
    THEN status(429, <<"rate-limit", loc(languageCode, "ErrorRateLimit")>>)
    ELSE sendStatus(429)

-----------------------------------------------------------------------------
(* GET /api/stream, lines 137-166 *)

\* the query of a stream request; genuine: the token is one the service
\* issued and has not expired
Query(id, exp, sig, sec, iv, p, genuine) ==
    [id |-> id, exp |-> exp, sig |-> sig, sec |-> sec, iv |-> iv, p |-> p,
     genuine |-> genuine]

Fields == {"id", "exp", "sig", "sec", "iv"}

WellShaped(p, genuine) ==
    Query(Str(21), Str(13), Str(43), Str(43), Str(22), p, genuine)

OtherValues == {Undefined, Str(0), Str(9), Str(13), Str(21), Str(22), Str(43)}

ProbeValues == {Undefined, Str(0), Str(1)}

\* the well-shaped queries, those with one field changed, and the empty one
Queries ==
    {WellShaped(p, g) : p \in ProbeValues, g \in BOOLEAN}
    \cup {[WellShaped(p, FALSE) EXCEPT ![f] = v] :
              p \in ProbeValues, f \in Fields, v \in OtherValues}
    \cup {Query(Undefined, Undefined, Undefined, Undefined, Undefined, p, FALSE) :
              p \in ProbeValues}

checkQueries(q) ==
    /\ StringLength(q.id) > 0
    /\ StringLength(q.exp) > 0
    /\ StringLength(q.sig) > 0
    /\ StringLength(q.sec) > 0
    /\ StringLength(q.iv) > 0

checkBaseLength(q) == StringLength(q.id) = 21 /\ StringLength(q.exp) = 13

checkSafeLength_NoIv(q) == StringLength(q.sig) = 43 /\ StringLength(q.sec) = 43

checkSafeLength(q) ==
    /\ StringLength(q.sig) = 43
    /\ StringLength(q.sec) = 43
    /\ StringLength(q.iv) = 22

probe_Ignored(q) == FALSE

\* if (req.query.p)
probe(q) == Truthy(q.p)

\* what verifyStream or getInternalStream gives back
Thrown == [kind |-> "throw", service |-> "", status |-> 0]
Nothing == [kind |-> "null", service |-> "", status |-> 0]
Failure(code) == [kind |-> "object", service |-> "", status |-> code]
Descriptor(service) == [kind |-> "object", service |-> service, status |-> 0]
NotCalled == [kind |-> "none", service |-> "", status |-> 0]

verifyStream(q) ==
    IF q.genuine
    THEN {Descriptor("youtube"), Failure(404), Thrown}
    ELSE {Failure(400), Failure(401), Failure(404), Failure(500), Nothing, Thrown}

\* stream(res, streamInfo): returns, or throws
stream == {"returns", "throws"}

hasService_Any(streamInfo) == streamInfo.kind = "object"

\* streamInfo?.service
hasService(streamInfo) == streamInfo.kind = "object" /\ streamInfo.service # ""

failureStatus_Unauthorized(streamInfo) == sendStatus(401)

\* res.sendStatus(streamInfo.status); reading .status of null throws
failureStatus(streamInfo) ==
    IF streamInfo.kind = "object" THEN sendStatus(streamInfo.status) ELSE destroy

\* how a handler ends: its response, the collaborators it called in order,
\* what verifyStream or getInternalStream returned, and who threw
Out(res, calls, result, threw) ==
    [res |-> res, calls |-> calls, result |-> result, threw |-> threw]

\* the handler, given what verifyStream and stream do when they are called
streamRoute(q, streamInfo, proxy) ==
    IF checkQueries(q) /\ checkBaseLength(q) /\ checkSafeLength(q)
    THEN IF probe(q)
         THEN Out(status(200, <<"continue">>), <<>>, NotCalled, "")
         ELSE IF streamInfo.kind = "throw"
         THEN Out(destroy, <<"verifyStream">>, streamInfo, "verifyStream")
         ELSE IF ~hasService(streamInfo)
         THEN Out(failureStatus(streamInfo), <<"verifyStream">>, streamInfo, "")
         ELSE IF proxy = "throws"
         THEN Out(destroy, <<"verifyStream", "stream">>, streamInfo, "stream")
         ELSE Out(Proxied, <<"verifyStream", "stream">>, streamInfo, "")
    ELSE Out(sendStatus(400), <<>>, NotCalled, "")

-----------------------------------------------------------------------------
(* GET /api/istream, lines 168-183 *)

Id(name, n) == [type |-> "string", length |-> n, name |-> name]

\* req.query.id of an internal request
InternalIds == {Undefined, Id("prepared", 21), Id("unknown", 21), Id("short", 20)}

\* the ids the registry holds a descriptor for
internalStreams == {Id("prepared", 21)}

getInternalStream(id) ==
    IF id \in internalStreams
    THEN {Descriptor("youtube"), Thrown}
    ELSE {Nothing, Thrown}

iStreamRoute_IdFirst(addr, id, streamInfo, proxy) ==
    IF StringLength(id) # 21
    THEN Out(sendStatus(400), <<>>, NotCalled, "")
    ELSE IF ~EndsWith(addr, Loopback)
    THEN Out(sendStatus(403), <<>>, NotCalled, "")
    ELSE Out(sendStatus(404), <<"getInternalStream">>, streamInfo, "")

iStreamRoute_NoLookupTest(addr, id, streamInfo, proxy) ==
    IF ~EndsWith(addr, Loopback)
    THEN Out(sendStatus(403), <<>>, NotCalled, "")
    ELSE IF StringLength(id) # 21
    THEN Out(sendStatus(400), <<>>, NotCalled, "")
    ELSE IF streamInfo.kind = "throw"
    THEN Out(destroy, <<"getInternalStream">>, streamInfo, "getInternalStream")
    ELSE IF proxy = "throws"
    THEN Out(destroy, <<"getInternalStream", "stream">>, streamInfo, "stream")
    ELSE Out(Proxied, <<"getInternalStream", "stream">>, streamInfo, "")

\* the handler, given what getInternalStream and stream do when called
iStreamRoute(addr, id, streamInfo, proxy) ==
    IF ~EndsWith(addr, Loopback)
    THEN Out(sendStatus(403), <<>>, NotCalled, "")
    ELSE IF StringLength(id) # 21
    THEN Out(sendStatus(400), <<>>, NotCalled, "")
    ELSE IF streamInfo.kind = "throw"
    THEN Out(destroy, <<"getInternalStream">>, streamInfo, "getInternalStream")
    ELSE IF streamInfo.kind = "null"
    THEN Out(sendStatus(404), <<"getInternalStream">>, streamInfo, "")
    ELSE IF proxy = "throws"
    THEN Out(destroy, <<"getInternalStream", "stream">>, streamInfo, "stream")
    ELSE Out(Proxied, <<"getInternalStream", "stream">>, streamInfo, "")

-----------------------------------------------------------------------------
(* POST /api/json: the body parser, lines 68-94 *)

NoHeader == "(none)"

\* String(req.header(name))
StringOf(h) == IF h = NoHeader THEN "undefined" ELSE h

Headers == {NoHeader, "application/json", "application/json; charset=utf-8",
            "text/plain"}

\* a request without Content-Length and Transfer-Encoding has no body
NoPayload == [present |-> FALSE, length |-> 0, syntax |-> "", url |-> FALSE]

\* a body of n bytes: a JSON object, a JSON value that is no object, or
\* text that is no JSON; url: the object has a non-empty url
Payload(n, syntax, url) ==
    [present |-> TRUE, length |-> n, syntax |-> syntax, url |-> url]

Bodies ==
    {NoPayload, Payload(0, "malformed", FALSE)}
    \cup {Payload(n, "object", u) : n \in {60, 720, 721, 800}, u \in BOOLEAN}
    \cup {Payload(n, "malformed", FALSE) : n \in {60, 800}}
    \cup {Payload(60, "scalar", FALSE)}

JsonRequests == [accept : Headers, contentType : Headers, body : Bodies]

\* express.json reads the body of a request that has one and whose
\* Content-Type is application/json, with or without parameters
shouldParse(req) ==
    /\ req.body.present
    /\ req.contentType \in {"application/json", "application/json; charset=utf-8"}

\* JSON.parse(buf) succeeds
parses(body) == body.syntax \in {"object", "scalar"}

tooLong_Inclusive(body) == body.length >= 720

\* buf.length > 720
tooLong(body) == body.length > 720

\* the verify option, lines 69-77: TRUE when it throws
verify(req) ==
    IF StringOf(req.accept) = "application/json"
    THEN tooLong(req.body) \/ ~parses(req.body)
    ELSE TRUE

\* verify reaches JSON.parse(buf) when the Accept and the size tests passed
parseCalls(req) ==
    IF /\ shouldParse(req)
       /\ StringOf(req.accept) = "application/json"
       /\ ~tooLong(req.body)
    THEN <<"JSON.parse">>
    ELSE <<>>

\* express.json ends in an error: verify threw, or the body is no object
jsonError(req) ==
    shouldParse(req) /\ (verify(req) \/ req.body.syntax # "object")

\* the error middleware, lines 81-94, which runs when express.json failed
errorText(req) ==
    IF StringOf(req.accept) # "application/json"
    THEN "invalid accept header"
    ELSE "invalid json body"

\* req.body as the route handler finds it: TRUE when it has a url
hasUrl(req) == shouldParse(req) /\ req.body.url

-----------------------------------------------------------------------------
(* POST /api/json: the route handler, lines 96-135 *)

acceptRegex(h) ==
    StringOf(h) \in {"application/json", "application/json; charset=utf-8"}

createResponse(type, t) ==
    status(IF type = "error" THEN 400 ELSE 200, <<type, t>>)

fail(t) == createResponse("error", loc(languageCode, t))

\* verifyRequest: the normalized request, or nothing
verifyRequest == {"normalized", "rejected"}

\* extract: the parsed target, or null
extract == {"parsed", "null"}

\* match: settles with a status and a body, or with an exception
Settled(res) == [kind |-> "result", res |-> res]
Rejected == [kind |-> "throw", res |-> sendStatus(0)]
match ==
    {Settled(status(200, <<"redirect", "url">>)),
     Settled(status(400, <<"error", "ErrorFetch">>)),
     Rejected}

Pending == [status |-> 0, body |-> NoBody, destroyed |-> FALSE]

Step(by, res, calls) == [by |-> by, res |-> res, calls |-> calls]

jsonRoute_UrlFirst(req, normalized, parsed) ==
    IF ~hasUrl(req)
    THEN Step("route", fail("ErrorNoLink"), <<>>)
    ELSE IF ~acceptRegex(req.contentType)
    THEN Step("route", fail("ErrorInvalidContentType"), <<>>)
    ELSE IF normalized = "rejected"
    THEN Step("route", fail("ErrorCantProcess"), <<"verifyRequest">>)
    ELSE IF parsed = "null"
    THEN Step("route", fail("ErrorUnsupported"), <<"verifyRequest", "extract">>)
    ELSE Step("route", Pending, <<"verifyRequest", "extract", "match">>)

\* the handler up to the call of match: a response, or none yet
jsonRoute(req, normalized, parsed) ==
    IF ~acceptRegex(req.contentType)
    THEN Step("route", fail("ErrorInvalidContentType"), <<>>)
    ELSE IF ~hasUrl(req)
    THEN Step("route", fail("ErrorNoLink"), <<>>)
    ELSE IF normalized = "rejected"
    THEN Step("route", fail("ErrorCantProcess"), <<"verifyRequest">>)
    ELSE IF parsed = "null"
    THEN Step("route", fail("ErrorUnsupported"), <<"verifyRequest", "extract">>)
    ELSE Step("route", Pending, <<"verifyRequest", "extract", "match">>)

\* the body parser, the error middleware and the handler, in that order
jsonChain(req, normalized, parsed) ==
    IF jsonError(req)
    THEN Step("errorHandler", status(400, <<"error", errorText(req)>>),
              parseCalls(req))
    ELSE LET route == jsonRoute(req, normalized, parsed)
         IN  Step(route.by, route.res, parseCalls(req) \o route.calls)

\* the handler after match settled: its result, or the catch of line 132
jsonSettled(result) ==
    IF result.kind = "throw"
    THEN fail("ErrorSomethingWentWrong")
    ELSE result.res

-----------------------------------------------------------------------------
(* The state machine *)

NoRequest == [none |-> TRUE]

\* an exchange that ended: the request, who answered it (a limiter, the
\* error middleware or the route), the response, and what the handler did
Exchange(path, c, req, by, out) ==
    [path |-> path, caller |-> c, req |-> req, by |-> by, res |-> out.res,
     calls |-> out.calls, result |-> out.result, threw |-> out.threw]

NoExchange == Exchange("", "", NoRequest, "", Out(Pending, <<>>, NotCalled, ""))

InFlight(path, c, pc, req) == [path |-> path, caller |-> c, pc |-> pc, req |-> req]

\* what a specification draws its requests from: the callers of each path,
\* the requests in flight at once, the requests per key and window, and the
\* queries, ids and bodies sent
Traffic(callers, pending, cap, queries, ids, requests) ==
    [callers |-> callers, pending |-> pending, cap |-> cap,
     queries |-> queries, ids |-> ids, requests |-> requests]

Inputs(T, path) ==
    CASE path = "/api/stream"  -> T.queries
      [] path = "/api/istream" -> T.ids
      [] path = "/api/json"    -> T.requests
      [] OTHER                 -> {NoRequest}

\* a store that holds nothing
Empty == [k \in {} |-> 0]

\* the count a store holds for a key
Count(store, k) == IF k \in DOMAIN store THEN store[k] ELSE 0

\* the store with the count of k set
Put(store, k, n) == [x \in DOMAIN store \cup {k} |-> IF x = k THEN n ELSE store[x]]

Init ==
    /\ ipSalt \in {"s1"}
    /\ hits = [l \in Limiters |-> Empty]
    /\ passed = [l \in Limiters |-> Empty]
    /\ inflight = EmptyBag
    /\ last = NoExchange

limited_Never(totalHits, l) == FALSE

\* the :type parameter the router decodes for the mount of line 54
typeParam(path) ==
    LET segments == SegmentsOf(path)
    IN  IF Mounted(<<"api">>, path) /\ Len(segments) >= 2
        THEN decodeURIComponent(segments[2])
        ELSE ""

redirect(url) == status(302, <<"Location", url>>)

\* the router's answer to a parameter it cannot decode
BadRequest == status(400, <<"Bad Request">>)

\* what a path without a route of its own meets behind the limiters: the
\* pending parameter error, which skips every middleware that is not an
\* error handler, then the guard of lines 63-66, then app.get('/*')
pathChain(path) ==
    IF typeParam(path) = "URIError"
    THEN Step("express", BadRequest, <<>>)
    ELSE IF ~pathDecodes(path)
         THEN Step("guard", redirect("/"), <<>>)
         ELSE Step("route", redirect("/api/serverInfo"), <<>>)

\* the limiter answers instead of calling next()
limited(totalHits, l) == totalHits > max(l)

\* a request arrives and passes the limiter mounted on its path, if any
ReceiveOn(T, path, c) ==
    /\ BagCardinality(inflight) < T.pending
    /\ IF LimiterOf(path) = {}
       THEN /\ inflight' = inflight (+) SetToBag({InFlight(path, c, "admitted", NoRequest)})
            /\ UNCHANGED <<ipSalt, hits, passed, last>>
       ELSE \E l \in LimiterOf(path) :
            LET k == keyGenerator(c, ipSalt)
                totalHits == Count(hits[l], k) + 1
            IN  /\ Count(hits[l], k) < T.cap[l]
                /\ hits' = [hits EXCEPT ![l] = Put(@, k, totalHits)]
                /\ IF limited(totalHits, l)
                   THEN /\ \E req \in Inputs(T, path) :
                               last' = Exchange(path, c, req, "limiter",
                                                Out(handler(l), <<>>, NotCalled, ""))
                        /\ UNCHANGED <<passed, inflight>>
                   ELSE /\ passed' = [passed EXCEPT ![l] = Put(@, k, Count(@, k) + 1)]
                        /\ inflight' = inflight (+)
                               SetToBag({InFlight(path, c, "admitted", NoRequest)})
                        /\ UNCHANGED last
                /\ UNCHANGED ipSalt

Receive(T) == \E path \in Paths : \E c \in T.callers[path] : ReceiveOn(T, path, c)

\* windowMs went by: the store of a limiter forgets its counts
WindowElapsed ==
    \E l \in Limiters :
        /\ hits' = [hits EXCEPT ![l] = Empty]
        /\ passed' = [passed EXCEPT ![l] = Empty]
        /\ UNCHANGED <<ipSalt, inflight, last>>

Admitted(path) ==
    {r \in BagToSet(inflight) : r.path = path /\ r.pc = "admitted"}

StreamHandler(T) ==
    \E r \in Admitted("/api/stream") :
    \E q \in T.queries :
    \E out \in {streamRoute(q, streamInfo, proxy) :
                    streamInfo \in verifyStream(q), proxy \in stream} :
        /\ last' = Exchange(r.path, r.caller, q, "route", out)
        /\ inflight' = inflight (-) SetToBag({r})
        /\ UNCHANGED <<ipSalt, hits, passed>>

IStreamHandler(T) ==
    \E r \in Admitted("/api/istream") :
    \E id \in T.ids :
    \E out \in {iStreamRoute(Chars(r.caller), id, streamInfo, proxy) :
                    streamInfo \in getInternalStream(id), proxy \in stream} :
        /\ last' = Exchange(r.path, r.caller, id, "route", out)
        /\ inflight' = inflight (-) SetToBag({r})
        /\ UNCHANGED <<ipSalt, hits, passed>>

\* express.json, the error middleware and the handler up to its await
JsonHandler(T) ==
    \E r \in Admitted("/api/json") :
    \E req \in T.requests :
    \E out \in {jsonChain(req, normalized, parsed) :
                    normalized \in verifyRequest, parsed \in extract} :
        /\ IF out.res = Pending
           THEN /\ inflight' = (inflight (-) SetToBag({r})) (+)
                       SetToBag({InFlight(r.path, r.caller, "match", req)})
                /\ UNCHANGED last
           ELSE /\ inflight' = inflight (-) SetToBag({r})
                /\ last' = Exchange(r.path, r.caller, req, out.by,
                                    Out(out.res, out.calls, NotCalled, ""))
        /\ UNCHANGED <<ipSalt, hits, passed>>

\* a GET of a path that has no route of its own
PathHandler ==
    \E r \in {x \in BagToSet(inflight) :
                x.path \notin {"/api/json", "/api/stream", "/api/istream"}} :
        /\ last' = Exchange(r.path, r.caller, NoRequest, pathChain(r.path).by,
                            Out(pathChain(r.path).res, pathChain(r.path).calls,
                                NotCalled, ""))
        /\ inflight' = inflight (-) SetToBag({r})
        /\ UNCHANGED <<ipSalt, hits, passed>>

\* match settles and the handler answers
MatchSettles ==
    \E r \in {x \in BagToSet(inflight) : x.pc = "match"} :
    \E result \in match :
        /\ last' = Exchange(r.path, r.caller, r.req, "route",
                            Out(jsonSettled(result),
                                parseCalls(r.req) \o
                                    <<"verifyRequest", "extract", "match">>,
                                NotCalled,
                                IF result.kind = "throw" THEN "match" ELSE ""))
        /\ inflight' = inflight (-) SetToBag({r})
        /\ UNCHANGED <<ipSalt, hits, passed>>

-----------------------------------------------------------------------------
(* Specifications *)

\* the token gate and the internal route, under every query and every id
GateTraffic ==
    Traffic([path \in Paths |->
                CASE path = "/api/stream"  -> {"203.0.113.7"}
                  [] path = "/api/istream" -> Callers
                  [] path = "/api/json"    -> {}
                  [] OTHER                 -> {}],
            MaxPending, [l \in Limiters |-> MaxBurst],
            Queries, InternalIds, {})

NextGate ==
    \/ Receive(GateTraffic)
    \/ WindowElapsed
    \/ StreamHandler(GateTraffic)
    \/ IStreamHandler(GateTraffic)

SpecGate == Init /\ [][NextGate]_vars

\* one caller sending to both limited routes, up to and beyond each limit
RateQueries == {WellShaped(Str(1), TRUE), WellShaped(Undefined, TRUE)}

RateRequests ==
    {[accept |-> "application/json", contentType |-> "application/json",
      body |-> Payload(60, "object", TRUE)],
     [accept |-> "text/plain", contentType |-> "application/json",
      body |-> Payload(60, "object", TRUE)]}

RateTraffic ==
    Traffic([path \in Paths |->
                CASE path = "/api/stream"  -> {"203.0.113.7"}
                  [] path = "/api/istream" -> {}
                  [] path = "/api/json"    -> {"203.0.113.7"}
                  [] OTHER                 -> {}],
            MaxInFlight, [l \in Limiters |-> max(l) + MaxOver],
            RateQueries, {}, RateRequests)

NextRate ==
    \/ Receive(RateTraffic)
    \/ WindowElapsed
    \/ StreamHandler(RateTraffic)
    \/ JsonHandler(RateTraffic)
    \/ MatchSettles

SpecRate == Init /\ [][NextRate]_vars

\* the extraction route, under every Accept, Content-Type and body
JsonTraffic ==
    Traffic([path \in Paths |->
                CASE path = "/api/stream"  -> {}
                  [] path = "/api/istream" -> {}
                  [] path = "/api/json"    -> {"203.0.113.7"}
                  [] OTHER                 -> {}],
            MaxPending, [l \in Limiters |-> MaxBurst],
            {}, {}, JsonRequests)

NextJson ==
    \/ Receive(JsonTraffic)
    \/ WindowElapsed
    \/ JsonHandler(JsonTraffic)
    \/ MatchSettles

SpecJson == Init /\ [][NextJson]_vars

\* one caller sending to every path under the extraction limiter, and to
\* paths that do not decode, up to and beyond the limit
MountTraffic ==
    Traffic([path \in Paths |->
                IF path \in {"/api/stream", "/api/istream"}
                THEN {}
                ELSE {"203.0.113.7"}],
            MaxInFlight, [l \in Limiters |-> max(l) + MaxOver],
            {}, {}, RateRequests)

NextMount ==
    \/ Receive(MountTraffic)
    \/ WindowElapsed
    \/ JsonHandler(MountTraffic)
    \/ MatchSettles
    \/ PathHandler

SpecMount == Init /\ [][NextMount]_vars

\* two callers under either secret a process may have generated
InitKeys ==
    /\ ipSalt \in Salts
    /\ hits = [l \in Limiters |-> Empty]
    /\ passed = [l \in Limiters |-> Empty]
    /\ inflight = EmptyBag
    /\ last = NoExchange

KeysTraffic ==
    Traffic([path \in Paths |->
                CASE path = "/api/stream" -> {"203.0.113.7", "127.0.0.2"}
                  [] path = "/api/json"   -> {"203.0.113.7"}
                  [] OTHER                -> {}],
            MaxPending, [l \in Limiters |-> MaxInFlight],
            RateQueries, {}, RateRequests)

NextKeys ==
    \/ Receive(KeysTraffic)
    \/ WindowElapsed
    \/ StreamHandler(KeysTraffic)
    \/ JsonHandler(KeysTraffic)
    \/ MatchSettles

SpecKeys == InitKeys /\ [][NextKeys]_vars

-----------------------------------------------------------------------------
(* Properties of the stream and internal routes, under SpecGate *)

\* the latest exchange called the collaborator
Called(name) == \E i \in 1..Len(last.calls) : last.calls[i] = name

\* the stream route handler answered the latest exchange
StreamAnswered == last.path = "/api/stream" /\ last.by = "route"

Required == [id |-> 21, exp |-> 13, sig |-> 43, sec |-> 43, iv |-> 22]

\* a token field is absent or has not its required length
Malformed(q) ==
    \E f \in Fields : q[f].type = "undefined" \/ q[f].length # Required[f]

\* C1: a stream request with a token field absent or of the wrong length is
\* answered 400 and verifyStream is not called for it, probe flag or not
C1_ShapeGate ==
    (StreamAnswered /\ Malformed(last.req)) =>
        (last.res = sendStatus(400) /\ ~Called("verifyStream"))

C1_Witness ==
    /\ StreamAnswered
    /\ last.req.iv = Undefined
    /\ last.req.sig = Str(43)
    /\ Truthy(last.req.p)
    /\ last.res.status = 400

\* C2: stream() is called on /api/stream only after verifyStream was called
\* for the same request and returned a descriptor with a non-empty service
C2_StreamOnlyAfterVerify ==
    (last.path = "/api/stream" /\ Called("stream")) =>
        /\ last.calls = <<"verifyStream", "stream">>
        /\ last.result.kind = "object"
        /\ last.result.service # ""

C2_Witness ==
    /\ StreamAnswered
    /\ Called("stream")
    /\ last.result = Descriptor("youtube")
    /\ last.res = Proxied

\* C3: an /api/istream request from an address that does not end in
\* 127.0.0.1 is answered 403 whatever its id, with no lookup and no stream()
C3_NonLoopbackForbidden ==
    (last.path = "/api/istream" /\ last.caller \in {"127.0.0.2", "203.0.113.7"}) =>
        (last.res = sendStatus(403) /\ last.calls = <<>>)

C3_Witness ==
    /\ last.path = "/api/istream"
    /\ last.caller = "203.0.113.7"
    /\ last.req = Id("prepared", 21)
    /\ last.res.status = 403

\* C7: a well-shaped stream request with the probe flag set is answered 200
\* {status: "continue"}, valid token or not, without verifyStream or stream()
C7_ProbeContinue ==
    (StreamAnswered /\ ~Malformed(last.req) /\ Truthy(last.req.p)) =>
        (last.res = status(200, <<"continue">>) /\ last.calls = <<>>)

C7_Witness ==
    /\ StreamAnswered
    /\ ~Malformed(last.req)
    /\ Truthy(last.req.p)
    /\ ~last.req.genuine
    /\ last.res.status = 200

\* C8: when verifyStream returns a failure carrying status s, the response
\* status is s, with no body, and stream() is not called
C8_FailureForwarded ==
    (StreamAnswered /\ Called("verifyStream")
        /\ last.result.kind = "object" /\ last.result.service = "") =>
        (last.res = sendStatus(last.result.status) /\ ~Called("stream"))

C8_Witness ==
    /\ StreamAnswered
    /\ last.result = Failure(500)
    /\ last.res.status = 500

\* C9: when verifyStream or stream() throws on /api/stream, or
\* getInternalStream or stream() on /api/istream, the connection is
\* destroyed and no status and no body is written
C9_ThrowDestroys ==
    (last.path \in {"/api/stream", "/api/istream"} /\ last.threw # "") =>
        (last.res.destroyed /\ last.res.status = 0 /\ last.res.body = NoBody)

C9_Witness ==
    /\ last.path = "/api/istream"
    /\ last.threw = "stream"
    /\ last.res.destroyed

\* the internal route answered a caller whose address ends in the loopback
\* address, and neither collaborator threw
LoopbackAnswered ==
    /\ last.path = "/api/istream"
    /\ last.by = "route"
    /\ EndsWith(Chars(last.caller), Loopback)
    /\ last.threw = ""

\* C13 as stated: a loopback request that carries an id, any id that has no
\* prepared descriptor, is answered 404 and stream() is not called
C13_UnknownIs404 ==
    (LoopbackAnswered /\ last.req.type = "string"
                      /\ last.req \notin internalStreams) =>
        (last.res = sendStatus(404) /\ ~Called("stream"))

\* C13, amended: a loopback request whose id is 21 characters long and for
\* which the lookup returns no descriptor is answered 404 and stream() is
\* not called; an id of any other length is answered 400 before the lookup
C13_UnknownOfLength21Is404 ==
    (LoopbackAnswered /\ last.req \notin internalStreams) =>
        IF StringLength(last.req) = 21
        THEN last.res = sendStatus(404) /\ ~Called("stream")
        ELSE last.res = sendStatus(400) /\ last.calls = <<>>

C13_Witness ==
    /\ LoopbackAnswered
    /\ last.caller = "::ffff:127.0.0.1"
    /\ last.req = Id("unknown", 21)
    /\ last.calls = <<"getInternalStream">>
    /\ last.res.status = 404

-----------------------------------------------------------------------------
(* Properties of the limiters, under SpecRate *)

Quota == [apiLimiter |-> 20, apiLimiterStream |-> 25]

RemoteKey == keyGenerator("203.0.113.7", ipSalt)

\* C4: the request that brings a key's count in a window to the limit (20
\* on /api/json, 25 on /api/stream) is handed on and not answered 429; the
\* next request of the key in that window is answered 429
C4_LimitReached ==
    [][\A l \in Limiters : \A k \in Keys :
        (Count(hits'[l], k) = Count(hits[l], k) + 1) =>
            /\ (Count(hits'[l], k) = Quota[l]) =>
                   /\ Count(passed'[l], k) = Count(passed[l], k) + 1
                   /\ BagCardinality(inflight') = BagCardinality(inflight) + 1
                   /\ last' = last
            /\ (Count(hits'[l], k) = Quota[l] + 1) =>
                   /\ last'.by = "limiter"
                   /\ last'.res.status = 429
                   /\ passed'[l] = passed[l]
                   /\ inflight' = inflight]_vars

C4_Witness ==
    /\ Count(hits["apiLimiterStream"], RemoteKey) = 26
    /\ Count(passed["apiLimiterStream"], RemoteKey) = 25
    /\ last.path = "/api/stream"
    /\ last.by = "limiter"
    /\ last.res = sendStatus(429)

\* C5: with requests in flight and suspended in match, a request a limiter
\* answers 429 is not handed on and calls no collaborator, and a limiter
\* hands on at most 20 (/api/json) or 25 (/api/stream) requests of a key in
\* one window
C5_AtMostQuotaPass ==
    /\ \A l \in Limiters : \A k \in Keys :
          /\ Count(passed[l], k) <= Quota[l]
          /\ Count(passed[l], k) <= Count(hits[l], k)
          /\ Count(hits[l], k) > Quota[l] => Count(passed[l], k) = Quota[l]
    /\ last.by = "limiter" => (last.res.status = 429 /\ last.calls = <<>>)

C5_Witness ==
    /\ \E r \in BagToSet(inflight) : r.pc = "match"
    /\ Count(hits["apiLimiter"], RemoteKey) = 21
    /\ Count(passed["apiLimiter"], RemoteKey) = 20
    /\ last.path = "/api/json"
    /\ last.by = "limiter"

\* C6: a request to /api/stream leaves the counts of the extraction limiter
\* as they are, and a request to /api/json those of the stream limiter
C6_IndependentBuckets ==
    [][\A c \in Callers :
        /\ ReceiveOn(RateTraffic, "/api/stream", c) =>
               /\ hits'["apiLimiter"] = hits["apiLimiter"]
               /\ passed'["apiLimiter"] = passed["apiLimiter"]
        /\ ReceiveOn(RateTraffic, "/api/json", c) =>
               /\ hits'["apiLimiterStream"] = hits["apiLimiterStream"]
               /\ passed'["apiLimiterStream"] = passed["apiLimiterStream"]]_vars

C6_Witness ==
    /\ Count(hits["apiLimiter"], RemoteKey) = 21
    /\ Count(hits["apiLimiterStream"], RemoteKey) = 1
    /\ Count(passed["apiLimiterStream"], RemoteKey) = 1
    /\ last.path = "/api/stream"
    /\ last.by = "route"

\* C19: a probe is subject to the stream limiter: every request to
\* /api/stream is counted before its query is read, a probe of a caller who
\* already sent 25 requests in the window is answered 429 and not 200, and
\* a probe is answered 200 only once the limiter handed it on
C19_ProbesLimited ==
    /\ [][\A c \in Callers :
            ReceiveOn(RateTraffic, "/api/stream", c) =>
                LET k == keyGenerator(c, ipSalt)
                    before == Count(hits["apiLimiterStream"], k)
                IN  /\ Count(hits'["apiLimiterStream"], k) = before + 1
                    /\ before >= 25 =>
                           /\ last'.path = "/api/stream"
                           /\ last'.by = "limiter"
                           /\ last'.res = sendStatus(429)
                           /\ inflight' = inflight]_vars
    /\ []((last.path = "/api/stream" /\ last.by = "limiter") =>
             last.res = sendStatus(429))
    /\ [][(/\ BagCardinality(inflight') < BagCardinality(inflight)
           /\ last'.path = "/api/stream"
           /\ Truthy(last'.req.p)
           /\ last'.res.status = 200) =>
              /\ last'.by = "route"
              /\ CopiesIn(InFlight("/api/stream", last'.caller, "admitted", NoRequest),
                          inflight') =
                 CopiesIn(InFlight("/api/stream", last'.caller, "admitted", NoRequest),
                          inflight) - 1]_vars

C19_Witness ==
    /\ last.path = "/api/stream"
    /\ last.by = "limiter"
    /\ last.req = WellShaped(Str(1), TRUE)
    /\ last.res = sendStatus(429)
    /\ Count(hits["apiLimiterStream"], RemoteKey) = 26

-----------------------------------------------------------------------------
(* Properties of the extraction route, under SpecJson *)

\* C10: a POST /api/json with Accept: text/plain that a limiter handed on is
\* answered 400 "invalid accept header" whatever its body, and reaches no
\* collaborator
C10_AcceptRejected ==
    (last.path = "/api/json" /\ last.by # "limiter"
        /\ last.req.accept = "text/plain") =>
        /\ last.res = status(400, <<"error", "invalid accept header">>)
        /\ last.calls = <<>>

\* the part of C10 the code keeps: such a request is answered 400 and
\* reaches no collaborator, and a body that was read is answered
\* "invalid accept header"
C10_AcceptNeverExtracted ==
    (last.path = "/api/json" /\ last.by # "limiter"
        /\ last.req.accept = "text/plain") =>
        /\ last.res.status = 400
        /\ last.calls = <<>>
        /\ shouldParse(last.req) =>
               last.res = status(400, <<"error", "invalid accept header">>)

\* the Accept and Content-Type headers the extraction route asks for
ValidHeaders(req) ==
    /\ req.accept = "application/json"
    /\ req.contentType \in {"application/json", "application/json; charset=utf-8"}

\* the error middleware answered the latest exchange with this text
ErrorAnswered(text) ==
    /\ last.by = "errorHandler"
    /\ last.res = status(400, <<"error", text>>)

\* C11: a POST /api/json with valid headers and a body of more than 720
\* bytes is answered 400 "invalid json body" before JSON.parse, the route
\* handler or a collaborator runs; a body of exactly 720 bytes is not
\* rejected for its size
C11_OversizedRejected ==
    (last.path = "/api/json" /\ last.by # "limiter" /\ ValidHeaders(last.req)) =>
        /\ (last.req.body.present /\ last.req.body.length > 720) =>
               (ErrorAnswered("invalid json body") /\ last.calls = <<>>)
        /\ (last.req.body.length = 720 /\ last.req.body.syntax = "object") =>
               (last.by = "route" /\ Called("JSON.parse"))

C11_Witness ==
    /\ last.path = "/api/json"
    /\ ValidHeaders(last.req)
    /\ last.req.body = Payload(800, "malformed", FALSE)
    /\ ErrorAnswered("invalid json body")

\* C14: when match throws or rejects, the answer is the generic
\* ErrorSomethingWentWrong message with a 500-class status, which is not the
\* status of a validation failure such as ErrorNoLink
C14_MatchThrowIs500 ==
    (last.path = "/api/json" /\ last.threw = "match") =>
        /\ last.res.body = <<"error", loc(languageCode, "ErrorSomethingWentWrong")>>
        /\ last.res.status \in 500..599
        /\ last.res.status # fail("ErrorNoLink").status

\* the collaborators the latest exchange called, in order
Collaborators == SelectSeq(last.calls, LAMBDA name : name # "JSON.parse")

\* C17: the extraction handler checks the Content-Type, the url,
\* verifyRequest and extract in this order and the first check that fails
\* decides the answer; match is called only when all four passed; a request
\* leaves the handler only with an answer
C17_ChecksInOrder ==
    /\ []((last.path = "/api/json" /\ last.by = "route") =>
            IF ~acceptRegex(last.req.contentType)
            THEN last.res = fail("ErrorInvalidContentType") /\ Collaborators = <<>>
            ELSE IF ~hasUrl(last.req)
            THEN last.res = fail("ErrorNoLink") /\ Collaborators = <<>>
            ELSE IF Collaborators = <<"verifyRequest">>
            THEN last.res = fail("ErrorCantProcess")
            ELSE IF Collaborators = <<"verifyRequest", "extract">>
            THEN last.res = fail("ErrorUnsupported")
            ELSE /\ Collaborators = <<"verifyRequest", "extract", "match">>
                 /\ \E result \in match :
                       /\ (result.kind = "throw") = (last.threw = "match")
                       /\ last.res.status = jsonSettled(result).status)
    /\ [][BagCardinality(inflight') < BagCardinality(inflight) =>
             /\ BagCardinality(inflight') = BagCardinality(inflight) - 1
             /\ last'.path = "/api/json"
             /\ last'.res.status # 0]_vars

C17_Witness ==
    /\ last.path = "/api/json"
    /\ last.by = "route"
    /\ last.req.contentType = "text/plain"
    /\ last.req.accept = "application/json"
    /\ last.req.body = Payload(60, "object", TRUE)
    /\ last.res = fail("ErrorInvalidContentType")

\* C18: a request with Accept "application/json; charset=utf-8" and a valid
\* JSON body of at most 720 bytes is not rejected by the body parser, as a
\* request with the plain Accept value is not
C18_CharsetAccepted ==
    (/\ last.path = "/api/json"
     /\ last.by # "limiter"
     /\ last.req.accept \in {"application/json", "application/json; charset=utf-8"}
     /\ last.req.contentType = "application/json"
     /\ last.req.body.syntax = "object"
     /\ last.req.body.length <= 720) =>
        last.by # "errorHandler"

-----------------------------------------------------------------------------
(* Properties of the client key, under SpecKeys *)

\* the addresses that have a bucket in the store of limiter l
Bucketed(l) ==
    {c \in Callers : keyGenerator(c, ipSalt) \in DOMAIN hits[l]}

-----------------------------------------------------------------------------
(* Properties of the middleware order, under SpecMount *)

\* C12: a request whose path does not percent-decode is answered with a
\* redirect to "/", and no collaborator is called for it
C12_UndecodableRedirected ==
    (last.path \in Paths /\ ~pathDecodes(last.path)) =>
        (last.res = redirect("/") /\ last.calls = <<>>)

\* the request the limiter hands on
Handed(path, c) == InFlight(path, c, "admitted", NoRequest)

\* C16 as stated: a request whose path does not decode is neither counted
\* nor answered 429 by a limiter
C16_GuardBeforeLimiter ==
    [][\A path \in Paths : \A c \in Callers :
          (~pathDecodes(path) /\ ReceiveOn(MountTraffic, path, c)) =>
              /\ hits' = hits
              /\ CopiesIn(Handed(path, c), inflight') =
                     CopiesIn(Handed(path, c), inflight) + 1]_vars

\* C16, amended: the limiter mounted on a path prefix runs before the guard:
\* a request under /api/json whose path does not decode is counted by
\* apiLimiter and answered 429 when its caller is over the limit; the guard
\* redirects only a request that the limiter, if one is mounted, handed on
C16_LimiterBeforeGuard ==
    /\ [][\A c \in Callers :
            ReceiveOn(MountTraffic, "/api/json/%ZZ", c) =>
                LET k == keyGenerator(c, ipSalt)
                    before == Count(hits["apiLimiter"], k)
                IN  /\ Count(hits'["apiLimiter"], k) = before + 1
                    /\ IF before >= 20
                       THEN /\ last'.path = "/api/json/%ZZ"
                            /\ last'.by = "limiter"
                            /\ last'.res = handler("apiLimiter")
                            /\ inflight' = inflight
                       ELSE /\ CopiesIn(Handed("/api/json/%ZZ", c), inflight') =
                                   CopiesIn(Handed("/api/json/%ZZ", c), inflight) + 1]_vars
    /\ [][(BagCardinality(inflight') < BagCardinality(inflight)
                /\ last'.by = "guard") =>
             /\ last'.res = redirect("/")
             /\ ~pathDecodes(last'.path)
             /\ CopiesIn(Handed(last'.path, last'.caller), inflight') =
                    CopiesIn(Handed(last'.path, last'.caller), inflight) - 1]_vars

C16_Witness ==
    /\ last.path = "/api/json/%ZZ"
    /\ last.by = "limiter"
    /\ last.res.status = 429
    /\ Count(hits["apiLimiter"], RemoteKey) = 21

\* C20: /api/json and /api/onDemand are mounted on the one apiLimiter and
\* share a caller's bucket: a request to either path adds to the same count,
\* is answered 429 once the caller sent 20 in the window, and no more than
\* 20 requests of a caller are handed on in a window, whatever their paths
C20_SharedBucket ==
    /\ [][\A path \in {"/api/json", "/api/onDemand"} : \A c \in Callers :
            ReceiveOn(MountTraffic, path, c) =>
                LET k == keyGenerator(c, ipSalt)
                    before == Count(hits["apiLimiter"], k)
                IN  /\ Count(hits'["apiLimiter"], k) = before + 1
                    /\ Count(passed'["apiLimiter"], k) =
                           Count(passed["apiLimiter"], k) + (IF before >= 20 THEN 0 ELSE 1)
                    /\ before >= 20 =>
                           /\ last'.path = path
                           /\ last'.by = "limiter"
                           /\ last'.res = handler("apiLimiter")
                           /\ inflight' = inflight]_vars
    /\ [](\A k \in DOMAIN passed["apiLimiter"] : passed["apiLimiter"][k] <= 20)

C20_Witness ==
    /\ last.path = "/api/onDemand"
    /\ last.by = "limiter"
    /\ last.res.status = 429
    /\ Count(hits["apiLimiter"], RemoteKey) = 21
    /\ Count(passed["apiLimiter"], RemoteKey) = 20
    /\ \E r \in BagToSet(inflight) : r.path = "/api/json"

====
